---- MODULE Spec2Model ----
(***************************************************************************)
(* Model of the Beanstalk runtime helpers:                                 *)
(*   - Resources/libc/src/syscalls.{h,c}: exit and write, raw x86-64       *)
(*     system calls issued through inline assembly;                        *)
(*   - libc/src/library.c: print, print_int, print_long_long, which format *)
(*     with sprintf into a buffer sized by ceil(log10(value)) + 1 and hand *)
(*     the text to fputs(str, stdout).                                     *)
(* C integers keep their width: an int or a long long is a little-endian   *)
(* sequence of 16-bit limbs in two's complement, so that -INT_MIN and      *)
(* LLONG_MIN are computed as the machine computes them.                    *)
(***************************************************************************)
EXTENDS Integers, Sequences, FiniteSets

\* ------------------------------------------------------------------ bounds
\* Calls made in one run of the process.
MaxCalls == 3
\* Largest len passed to write (and largest byte count the kernel returns).
MaxLen == 3
\* Kernel error codes are -1 .. -MaxErrno.
MaxErrno == 2
\* Powers of ten 10^0 .. 10^MaxPow are among the values formatted.
MaxPow == 5

\* ------------------------------------------------------- program constants
SYS_write == 1
SYS_exit == 60
\* A pointer is null or points at a buffer of the caller.
NULL == "NULL"
IntBits == 32
LongLongBits == 64

\* --------------------------------------------- fixed-width integers (limbs)
Base == 2^16
Limbs(w) == w \div 16

\* The w-bit two's complement representation of a small integer n.
RECURSIVE ToLimbs(_, _)
ToLimbs(n, k) ==
  IF k = 0 THEN <<>> ELSE <<n % Base>> \o ToLimbs(n \div Base, k - 1)

Word(n, w) == ToLimbs(n, Limbs(w))

IsZero(x) == \A i \in 1..Len(x) : x[i] = 0

\* value < 0 for a signed value: the sign bit of the top limb.
IsNeg(x) == x[Len(x)] >= Base \div 2

MinWord(w) == [i \in 1..Limbs(w) |-> IF i = Limbs(w) THEN Base \div 2 ELSE 0]
MaxWord(w) == [i \in 1..Limbs(w) |-> IF i = Limbs(w) THEN Base \div 2 - 1 ELSE Base - 1]

\* -x in w-bit two's complement: invert every limb and add one, the carry
\* out of the top limb dropped (the result mod 2^w).
RECURSIVE NegFrom(_, _, _)
NegFrom(x, i, carry) ==
  IF i > Len(x) THEN <<>>
  ELSE LET s == (Base - 1 - x[i]) + carry
       IN  <<s % Base>> \o NegFrom(x, i + 1, s \div Base)

Neg(x) == NegFrom(x, 1, 1)

\* The mathematical -x is not representable: x is the minimum of its width.
NegOverflows(x) == IsNeg(x) /\ Neg(x) = x

\* x * 10 + c on limbs, mod 2^w.
RECURSIVE MulAddFrom(_, _, _)
MulAddFrom(x, i, carry) ==
  IF i > Len(x) THEN <<>>
  ELSE LET s == x[i] * 10 + carry
       IN  <<s % Base>> \o MulAddFrom(x, i + 1, s \div Base)

MulAdd10(x, c) == MulAddFrom(x, 1, c)

\* Unsigned x divided by 10: quotient (limbs) and remainder, long division
\* from the top limb down.
RECURSIVE Div10From(_, _, _)
Div10From(x, i, rem) ==
  IF i = 0 THEN [q |-> <<>>, r |-> rem]
  ELSE LET cur  == rem * Base + x[i]
           rest == Div10From(x, i - 1, cur % 10)
       IN  [q |-> rest.q \o <<cur \div 10>>, r |-> rest.r]

DivMod10(x) == Div10From(x, Len(x), 0)

\* The decimal digits of unsigned x, most significant first; <<>> for 0.
RECURSIVE UDigits(_)
UDigits(x) ==
  IF IsZero(x) THEN <<>>
  ELSE LET d == DivMod10(x) IN UDigits(d.q) \o <<d.r>>

RECURSIVE Pow10(_, _)
Pow10(k, w) == IF k = 0 THEN Word(1, w) ELSE MulAdd10(Pow10(k - 1, w), 0)

\* -------------------------------------------------------------------- text
\* A text is a sequence of one-character strings.
DigitChars == <<"0", "1", "2", "3", "4", "5", "6", "7", "8", "9">>
DigitChar(d) == DigitChars[d + 1]

UDec(x) ==
  IF IsZero(x) THEN <<"0">>
  ELSE LET ds == UDigits(x) IN [i \in 1..Len(ds) |-> DigitChar(ds[i])]

\* What sprintf's %d (int) and %lld (long long) conversions write for x.
sprintf_d(x) == IF IsNeg(x) THEN <<"-">> \o UDec(Neg(x)) ELSE UDec(x)

\* ceil(log10(x)) for x > 0: the least k with 10^k >= x, which is the digit
\* count of x, less one when x is an exact power of ten.
CeilLog10(x) ==
  LET ds == UDigits(x)
  IN  IF ds[1] = 1 /\ \A i \in 2..Len(ds) : ds[i] = 0
      THEN Len(ds) - 1 ELSE Len(ds)

\* log10(x) is -infinity for x = 0 and NaN for x < 0.
Log10Finite(x) == ~IsNeg(x) /\ ~IsZero(x)

INT_MIN == (-(2^30)) - 2^30

\* (int) of a NaN or an infinity is undefined: cvttsd2si gives INT_MIN, other
\* targets saturate an infinity and give 0 for a NaN.
FloatToIntUB(x) == IF IsZero(x) THEN {INT_MIN} ELSE {INT_MIN, 0}

\* The values `(int) ((ceil(log10(x)) + 1) * sizeof(char))` can take.
max_count(x) == IF Log10Finite(x) THEN {CeilLog10(x) + 1} ELSE FloatToIntUB(x)

\* char str[mc]; sprintf(str, ...) writes the text and its terminating NUL.
\* A non-positive array size, or a write past the array, is undefined.
BufferUB(mc, text) == mc <= 0 \/ Len(text) + 1 > mc

\* ------------------------------------------------------------------- state
VARIABLES
  alive,         \* the process exists
  ncalls,        \* calls made so far
  kernelWrites,  \* SYS_write requests the kernel has received
  accepted,      \* write calls that passed the precondition check
  exitReq,       \* statuses of the SYS_exit requests the kernel has received
  op,            \* the call made last
  exitArg,       \* the last call's argument, when it was exit
  wr,            \* the last call, when it was write
  fmt            \* the last call, when it was print, print_int, print_long_long

vars == <<alive, ncalls, kernelWrites, accepted, exitReq, op, exitArg, wr, fmt>>

NoWr == [fd |-> 0, data |-> NULL, len |-> 0, issued |-> 0, kret |-> 0, result |-> 0]

NoFmt ==
  [value |-> <<>>, max_count |-> 0, text |-> <<>>, negOverflow |-> FALSE,
   castUB |-> FALSE, crashed |-> FALSE, fputs |-> "none", gateway |-> 0, ret |-> "void"]

\* --------------------------------------------------------------- inputs
Buf == "buf"
Pointers == {NULL, Buf}
FDs == {-1, 1, 2}
Lens == -1..MaxLen
Statuses == {-1, 0, 1, 255}
Strs == {<<>>, <<"h", "i">>}
SmallInts == {0, 5, 11, 42, 99, 101, -5, -11, -42}

Values(w) ==
  {Word(n, w) : n \in SmallInts}
    \cup {Pow10(k, w) : k \in 0..MaxPow}
    \cup {Neg(Pow10(k, w)) : k \in 0..MaxPow}
    \cup {MinWord(w), MaxWord(w), Neg(MaxWord(w))}

\* What the kernel may answer to write(fd, data, len): an error code, or a
\* byte count no larger than len.
KernelRets(len) == (-MaxErrno .. -1) \cup (0 .. len)

Init ==
  /\ alive = TRUE
  /\ ncalls = 0
  /\ kernelWrites = 0
  /\ accepted = 0
  /\ exitReq = <<>>
  /\ op = "none"
  /\ exitArg = 0
  /\ wr = NoWr
  /\ fmt = NoFmt

\* A call is made by a live process; the model stops after MaxCalls calls.
Running == alive /\ ncalls < MaxCalls

\* ------------------------------------------------------------ syscalls.c
\* Mutant: the termination request returns to the caller.
SYSCALL1_NORET_returns(nr, arg1) ==
  /\ nr = SYS_exit
  /\ exitReq' = Append(exitReq, arg1)
  /\ alive' = alive

\* SYSCALL1_NORET(SYS_exit, retval): the kernel destroys the process.
SYSCALL1_NORET(nr, arg1) ==
  /\ nr = SYS_exit
  /\ exitReq' = Append(exitReq, arg1)
  /\ alive' = FALSE

exit(retval) ==
  /\ Running
  /\ SYSCALL1_NORET(SYS_exit, retval)
  /\ ncalls' = ncalls + 1
  /\ op' = "exit"
  /\ exitArg' = retval
  /\ wr' = NoWr
  /\ fmt' = NoFmt
  /\ UNCHANGED <<kernelWrites, accepted>>

\* Mutant: the check of len is missing.
Rejected_NoLenCheck(fd, data, len) == fd = -1 \/ data = NULL

\* Mutant: a null buffer is refused only when len > 0.
Rejected_NullWhenLen(fd, data, len) ==
  fd = -1 \/ (data = NULL /\ len > 0) \/ len < 0

\* if (fd == -1 || !data || len < 0) return -1;
Rejected(fd, data, len) == fd = -1 \/ data = NULL \/ len < 0

\* Mutant: the kernel's answer is returned as it is.
WriteReturn_passthrough(retval) == retval

\* if (retval < 0) return -1; return retval;
WriteReturn(retval) == IF retval < 0 THEN -1 ELSE retval

\* Mutant: a short write is followed by a second request for the rest.
SYSCALL3_retry(retval, nr, arg1, arg2, arg3) ==
  /\ nr = SYS_write
  /\ retval \in KernelRets(arg3)
  /\ kernelWrites' = kernelWrites + (IF 0 <= retval /\ retval < arg3 THEN 2 ELSE 1)

\* SYSCALL3(retval, SYS_write, fd, data, len): one request, answered retval.
SYSCALL3(retval, nr, arg1, arg2, arg3) ==
  /\ nr = SYS_write
  /\ retval \in KernelRets(arg3)
  /\ kernelWrites' = kernelWrites + 1

write(fd, data, len) ==
  /\ Running
  /\ ncalls' = ncalls + 1
  /\ op' = "write"
  /\ fmt' = NoFmt
  /\ UNCHANGED <<alive, exitReq, exitArg>>
  /\ IF Rejected(fd, data, len)
     THEN /\ wr' = [fd |-> fd, data |-> data, len |-> len,
                    issued |-> 0, kret |-> 0, result |-> -1]
          /\ UNCHANGED <<kernelWrites, accepted>>
     ELSE \E retval \in -MaxErrno..MaxLen :
            /\ SYSCALL3(retval, SYS_write, fd, data, len)
            /\ accepted' = accepted + 1
            /\ wr' = [fd |-> fd, data |-> data, len |-> len,
                      issued |-> 1, kret |-> retval,
                      result |-> WriteReturn(retval)]

\* ------------------------------------------------------------- library.c
\* fputs(str, stdout) answers a non-negative value or EOF.
FputsResults == {"ok", "EOF"}

\* The common tail of the formatters: size the buffer from x, sprintf the
\* text into it, fputs it. Undefined behaviour either goes unnoticed or ends
\* the process with a fault. Nothing is returned and the gateway is not used.
Emit(name, value, x, text, ovf) ==
  \E mc \in max_count(x), fr \in FputsResults :
  \E crash \in (IF BufferUB(mc, text) THEN BOOLEAN ELSE {FALSE}) :
    /\ op' = name
    /\ fmt' = [value |-> value, max_count |-> mc,
               text |-> IF crash THEN <<>> ELSE text,
               negOverflow |-> ovf, castUB |-> ~Log10Finite(x),
               crashed |-> crash,
               fputs |-> IF crash THEN "none" ELSE fr,
               gateway |-> 0, ret |-> "void"]
    /\ alive' = ~crash

\* -value on INT_MIN under a trapping build.
Trap(name, value) ==
  /\ op' = name
  /\ fmt' = [NoFmt EXCEPT !.value = value, !.negOverflow = TRUE, !.crashed = TRUE]
  /\ alive' = FALSE

print(str) ==
  /\ Running
  /\ \E fr \in FputsResults :
       fmt' = [NoFmt EXCEPT !.text = str, !.fputs = fr]
  /\ op' = "print"
  /\ ncalls' = ncalls + 1
  /\ wr' = NoWr
  /\ UNCHANGED <<alive, kernelWrites, accepted, exitReq, exitArg>>

print_int(value) ==
  /\ Running
  /\ ncalls' = ncalls + 1
  /\ wr' = NoWr
  /\ UNCHANGED <<kernelWrites, accepted, exitReq, exitArg>>
  /\ IF ~IsNeg(value)
     THEN Emit("print_int", value, value, sprintf_d(value), FALSE)
     ELSE \/ Emit("print_int", value, Neg(value),
                  <<"-">> \o sprintf_d(Neg(value)), NegOverflows(value))
          \/ NegOverflows(value) /\ Trap("print_int", value)

print_long_long(value) ==
  /\ Running
  /\ ncalls' = ncalls + 1
  /\ wr' = NoWr
  /\ UNCHANGED <<kernelWrites, accepted, exitReq, exitArg>>
  /\ Emit("print_long_long", value, value, sprintf_d(value), FALSE)

Next ==
  \/ \E fd \in FDs, data \in Pointers, len \in Lens : write(fd, data, len)
  \/ \E retval \in Statuses : exit(retval)
  \/ \E str \in Strs : print(str)
  \/ \E value \in Values(IntBits) : print_int(value)
  \/ \E value \in Values(LongLongBits) : print_long_long(value)

Spec == Init /\ [][Next]_vars

\* ------------------------------------------------------- claim vocabulary
FormatOps == {"print_int", "print_long_long"}
OutputOps == FormatOps \cup {"print"}

IsDigitChar(c) == \E d \in 0..9 : DigitChar(d) = c
CharDigit(c) == CHOOSE d \in 0..9 : DigitChar(d) = c

\* Decimal text read back into a w-bit integer; <<>> when it is not an
\* optional '-' followed by one or more digits.
RECURSIVE UParseFrom(_, _, _)
UParseFrom(text, i, acc) ==
  IF i > Len(text) THEN acc
  ELSE UParseFrom(text, i + 1, MulAdd10(acc, CharDigit(text[i])))

Parse(text, w) ==
  LET neg    == text # <<>> /\ text[1] = "-"
      digits == IF neg THEN Tail(text) ELSE text
  IN  IF digits = <<>> \/ \E i \in 1..Len(digits) : ~IsDigitChar(digits[i])
      THEN <<>>
      ELSE LET m == UParseFrom(digits, 1, Word(0, w))
           IN  IF neg THEN Neg(m) ELSE m

\* text is the canonical decimal representation of the signed value v.
IsCanonicalOf(text, v) ==
  LET neg    == text # <<>> /\ text[1] = "-"
      digits == IF neg THEN Tail(text) ELSE text
  IN  /\ neg <=> IsNeg(v)
      /\ digits # <<>>
      /\ \A i \in 1..Len(digits) : IsDigitChar(digits[i])
      /\ digits[1] = "0" => Len(digits) = 1
      /\ Parse(text, 16 * Len(v)) = v

\* The number of decimal digits of |v|, by repeated division by ten.
DigitCount(v) == Len(UDec(IF IsNeg(v) THEN Neg(v) ELSE v))

IsMinimum(v) == v # <<>> /\ v = MinWord(16 * Len(v))

\* The last call was a write whose arguments violate no precondition the
\* code checks.
WriteAccepted == op = "write" /\ wr.fd # -1 /\ wr.data # NULL /\ wr.len >= 0

\* ------------------------------------------------------------------ claims
\* C1: a write call with fd == -1, a null data or len < 0 returns the error
\* result and issues no kernel write request: the count of kernel requests
\* is the same after the call as before it.
C1_FailFast ==
  [][(op' = "write" /\ ncalls' # ncalls
        /\ (wr'.fd = -1 \/ wr'.data = NULL \/ wr'.len < 0))
       => (wr'.result = -1 /\ wr'.issued = 0 /\ kernelWrites' = kernelWrites)]_vars

C1_Witness ==
  /\ op = "write" /\ wr.fd # -1 /\ wr.data # NULL /\ wr.len < 0
  /\ wr.result = -1
  /\ kernelWrites > 0

\* C2: the text print_int or print_long_long emits for v is the canonical
\* decimal representation of v ('-' iff v < 0, then the digits of |v| with no
\* leading zero except for "0"), and parsing it back yields v.
C2_Canonical ==
  (op \in FormatOps /\ ~fmt.crashed) => IsCanonicalOf(fmt.text, fmt.value)

\* C3: formatting the minimum value of a width succeeds: no intermediate
\* value leaves the range of its type (the negation of the argument, the
\* conversion to int of the buffer size) and the full decimal text is emitted.
C3_MinimumFormats ==
  (op \in FormatOps /\ IsMinimum(fmt.value))
    => /\ ~fmt.negOverflow
       /\ ~fmt.castUB
       /\ ~fmt.crashed
       /\ fmt.text = sprintf_d(fmt.value)

\* C4: the buffer length max_count is exactly the number of decimal digits
\* of |v|, plus one if v is negative.
C4_ExactLength ==
  (op \in FormatOps /\ ~fmt.crashed)
    => fmt.max_count = DigitCount(fmt.value) + (IF IsNeg(fmt.value) THEN 1 ELSE 0)

\* C5: every write call that passes the precondition checks issues exactly
\* one kernel write request, whatever the kernel answers; after n accepted
\* calls the kernel has received exactly n requests.
C5_OneRequestPerWrite ==
  /\ kernelWrites = accepted
  /\ WriteAccepted => wr.issued = 1

C5_Witness ==
  /\ WriteAccepted /\ accepted >= 2
  /\ wr.kret >= 0 /\ wr.kret < wr.len

\* C6 (as amended): for an accepted write the result is determined by the
\* kernel's return code r: -1 for every r < 0 (the code r itself is not
\* reported), and r unchanged for r >= 0, with r <= len; the result is -1 or
\* a byte count in 0..len.
C6_ResultFromKernelReturn ==
  (op = "write" /\ wr.issued = 1)
    => /\ wr.kret < 0 => wr.result = -1
       /\ wr.kret >= 0 => (wr.result = wr.kret /\ wr.kret <= wr.len)
       /\ wr.result = -1 \/ wr.result \in 0..wr.len

C6_Witness ==
  op = "write" /\ wr.issued = 1 /\ wr.kret = -MaxErrno /\ wr.result = -1

\* C6 (as claimed): for r < 0 the result carries the code r: no other
\* negative code would have given the same result.
C6_CarriesCode ==
  (op = "write" /\ wr.issued = 1 /\ wr.kret < 0)
    => \A r \in -MaxErrno .. -1 : WriteReturn(r) = wr.result => r = wr.kret

\* C7: exit(status) issues the termination request with that status and
\* never returns (no step follows a termination request); write never issues
\* the termination request: only exit ends the process this way.
C7_OnlyExitTerminates ==
  [][/\ exitReq = <<>>
     /\ exitReq' # exitReq
          => (op' = "exit" /\ exitReq' = <<exitArg'>> /\ ~alive')
     /\ op' = "exit" => exitReq' = <<exitArg'>>
     /\ op' = "write" => (exitReq' = exitReq /\ alive')]_vars

C7_Witness ==
  /\ op = "exit" /\ exitReq = <<255>> /\ ~alive
  /\ kernelWrites > 0

\* C8: when the underlying output operation of print, print_int or
\* print_long_long fails, the call reports that to its caller as a value.
C8_FailureReported ==
  (op \in OutputOps /\ fmt.fputs = "EOF") => fmt.ret # "void"

\* C9: a formatting call delivers its text through exactly one call of the
\* gateway's write.
C9_ThroughGateway ==
  (op \in FormatOps /\ ~fmt.crashed) => fmt.gateway = 1

\* C10 (as amended): write issues the kernel request if and only if
\* fd != -1, data is non-null and len >= 0; a null buffer is refused even
\* when len == 0.
C10_IssuedIff ==
  op = "write"
    => (wr.issued = 1 <=> (wr.fd # -1 /\ wr.data # NULL /\ wr.len >= 0))

C10_Witness ==
  /\ op = "write" /\ wr.fd = 1 /\ wr.data = NULL /\ wr.len = 0
  /\ wr.issued = 0 /\ wr.result = -1

\* C10 (as claimed): the request is issued if and only if fd != -1,
\* len >= 0, and data is non-null or len is not greater than 0.
C10_NullAllowedWhenEmpty ==
  op = "write"
    => (wr.issued = 1
          <=> (wr.fd # -1 /\ wr.len >= 0 /\ (wr.data # NULL \/ ~(wr.len > 0))))

====
